---------------------------- MODULE Spec2Model ----------------------------
(***************************************************************************)
(* A model of the Logitech TrackMan Marble FX PS/2-to-USB converter        *)
(* (src/marble_fx.ino): the interrupt-time frame receiver ps2_ISR, the     *)
(* ring buffer Mousebuffer, the bring-up handshake mouse_setup, the        *)
(* extended-protocol decoder ps2pp_decode, the button mapping map_buttons, *)
(* the report translation of loop() and the timer MyTimer.                 *)
(*                                                                         *)
(* Each part of the program has a specification of its own (SpecRx,        *)
(* SpecMbuf, ...) over the one set of variables; a specification leaves    *)
(* the variables of the other parts at their power-on values.              *)
(***************************************************************************)
EXTENDS Integers, Sequences, FiniteSets, TLC

VARIABLES
  \* ---- ps2_ISR's function-static state (lines 231-233)
  bit, data, parity,
  \* ---- globals shared between the interrupt and loop()
  ps2_error,      \* uint8_t ps2_error (line 174)
  mbuf,           \* Mousebuffer mbuf (line 221): [buf, head, tail]
  \* ---- the bus, seen from the receiver: the frame the device is clocking out
  frame,          \* the 11 line levels of the frame on the wire (<<>>: none)
  fpos,           \* falling edges of that frame delivered so far
  fbyte, fkind,   \* what the device encoded: the byte and the corrupted fields
  fidle,          \* the receiver was idle (bit = NONE) when the frame began
  fpushes,        \* arguments of the mbuf.push calls made during the frame
  ferrs,          \* error codes written to ps2_error during the frame
  fstart,         \* the Mailbox contents when the frame began
  nframes,        \* frames begun
  \* ---- the Mailbox exercised on its own
  npush,          \* mbuf.push calls made
  pushLog,        \* the argument of every mbuf.push call, in order
  accLog,         \* the arguments of the calls that stored their byte
  pullLog,        \* <<value, stored>> of every mbuf.pull call, in order
  pushAfterPull,  \* some push was made after a pull
  base,           \* the first byte value of the pushed series
  \* ---- globals of loop() (lines 154-171)
  lefthanded, internal_scrolling, stream_mode,
  xtrabutton, buttons, scroll_sum,
  jiggletimer, heartbeat,      \* MyTimer: [start_time, count, enabled]
  now,            \* millis()
  led,            \* pin_LED, toggled by every iteration of loop()
  \* ---- what the last iteration of loop() read and did
  rep,            \* the Report it pulled (<<>>: mouse_ready() timed out)
  suspended,      \* USBDevice.isSuspended() as it read it
  path,           \* the branch it took
  events,         \* the calls it made on Mouse, in order
  recovered,      \* it began with the recovery of lines 552-559
  nudged,         \* it made the two calls of the idle jiggle
  \* ---- the run of Reports translated with the scroll-role button held
  runLen, runSum, runSmall, runPos, runSix, runWheel, runMoves,
  released,       \* the scroll-role button has been seen released since the
                  \* last Report translated with it held (or never was held)
  \* ---- the idle timer since the last reset of jiggletimer
  lastReal,       \* millis() at that reset (0: power-on)
  lastCheck,      \* millis() at the last call of jiggletimer.action()
  nudges,         \* synthetic nudges emitted since
  awake,          \* jiggle switch on and host not suspended ever since
  skipped,        \* some call of action() since found two thresholds crossed
  asleep,         \* the host was suspended in every iteration of loop() so far
  beats,          \* status requests (PS2_STATUS) of the heartbeat sent so far
  hostDown,       \* per button, the Mouse.press calls minus the Mouse.release
                  \* calls made so far: the button's state on the host
  \* ---- map_buttons applied to one input, right- and left-handed
  mapIn, mapRH, mapLH,
  \* ---- the bring-up (mouse_setup) and the iteration of loop() around it
  pc,             \* "setup": in mouse_setup(); "iter": at the top of loop();
                  \* "rest": in loop() past the recovery (line 560)
  sidx,           \* the step of mouse_setup() to execute next
  caller,         \* who called mouse_setup(): "setup" or "loop"
  runs,           \* calls of mouse_setup() made
  faults,         \* timeouts and unanswered commands so far
  sent,           \* Reports the device has sent to loop() so far
  runTx,          \* bytes the device clocked in during this call, in order
  readLog,        \* <<value, arrived>> of each mouse_read of this call
  clean,          \* every command of this call was sent and answered
  missedAck,      \* some mouse_read for an ack timed out, no mouse_write of
                  \* this call having timed out before
  txAtMiss,       \* Len(runTx) when the first one did
  \* ---- the bus as the converter drives it, and the interrupt
  attached,       \* ps2_ISR is attached to the falling edge of CLK
  pin_CLK, pin_DATA,  \* as the converter sets them: 0 driven low, 1 released
  \* ---- mouse_write followed wait by wait
  wpc,            \* the wait it is in (0: not in mouse_write)
  wdata,          \* its argument
  wms,            \* milliseconds since SendTimeout.reset()
  wbits,          \* the levels it has put on DATA for data and parity bits
  wresult,        \* how the last call ended: "none", "ok", "error"
  nwrites,        \* calls made
  wedges,         \* falling clock edges of the device seen by ps2_ISR
                  \* during the calls
  \* ---- mouse_read followed test by test of the loop of mouse_ready
  rwait,          \* in the loop of mouse_ready()
  retry,          \* its local variable (uint8_t)
  rms,            \* calls of delay(1) it has made
  rret,           \* what the last mouse_ready() returned
  nreads,         \* calls made
  \* ---- the device and the heartbeat in stream mode
  pending,        \* bytes of its current Report the device has yet to send
  hbRead          \* what the four mouse_read of the last heartbeat returned

rxVars   == <<bit, data, parity>>
wireVars == <<frame, fpos, fbyte, fkind, fidle, fpushes, ferrs, fstart, nframes>>
mblogVars == <<npush, pushLog, accLog, pullLog, pushAfterPull, base>>
progVars == <<lefthanded, internal_scrolling, stream_mode, xtrabutton, buttons,
              scroll_sum, jiggletimer, heartbeat, now, led>>
iterVars == <<rep, suspended, path, events, nudged>>
runVars  == <<runLen, runSum, runSmall, runPos, runSix, runWheel, runMoves,
              released>>
idleVars == <<lastReal, lastCheck, nudges, awake, skipped, asleep, beats,
              hostDown>>
mapVars  == <<mapIn, mapRH, mapLH>>
setupVars == <<pc, sidx, caller, runs, faults, sent, runTx, readLog, clean,
               missedAck, txAtMiss>>
busVars  == <<attached, pin_CLK, pin_DATA>>
rdVars   == <<rwait, retry, rms, rret, nreads>>
devVars  == <<pending, hbRead>>
txVars   == <<wpc, wdata, wms, wbits, wresult, nwrites, wedges, rdVars,
              devVars>>
loopVars == <<progVars, iterVars, recovered, runVars, idleVars, mapVars,
              setupVars, busVars, txVars>>

vars == <<rxVars, ps2_error, mbuf, wireVars, mblogVars, loopVars>>

\* What the specifications of the receiver and of the Mailbox leave alone.
restRx   == <<mblogVars, loopVars>>
restMbuf == <<rxVars, ps2_error, wireVars, loopVars>>

(***************************************************************************)
(* uint8_t arithmetic.                                                     *)
(***************************************************************************)
Byte == 0..255

BitAt(x, i) == (x \div (2^i)) % 2

\* x & y, x | y on uint8_t, bit by bit
AndBits(x, y) ==
  LET b(i) == BitAt(x, i) * BitAt(y, i)
  IN  b(0) + 2*b(1) + 4*b(2) + 8*b(3) + 16*b(4) + 32*b(5) + 64*b(6) + 128*b(7)

OrBits(x, y) ==
  LET b(i) == IF BitAt(x, i) + BitAt(y, i) > 0 THEN 1 ELSE 0
  IN  b(0) + 2*b(1) + 4*b(2) + 8*b(3) + 16*b(4) + 32*b(5) + 64*b(6) + 128*b(7)

\* The same as tables, computed once.
AndTable == [x \in Byte |-> [y \in Byte |-> AndBits(x, y)]]
OrTable == [x \in Byte |-> [y \in Byte |-> OrBits(x, y)]]

BitAnd(x, y) == AndTable[x][y]
BitOr(x, y) == OrTable[x][y]

PopCount(x) ==
  BitAt(x,0) + BitAt(x,1) + BitAt(x,2) + BitAt(x,3)
  + BitAt(x,4) + BitAt(x,5) + BitAt(x,6) + BitAt(x,7)

(***************************************************************************)
(* Mousebuffer: the ring buffer of received bytes (lines 176-221).         *)
(***************************************************************************)
MBUF_SIZE == 16

\* Mousebuffer(void) { head = tail = 0; }; buf[] is zero-initialised static
\* storage.
MbufInit == [buf |-> [i \in 0..(MBUF_SIZE - 1) |-> 0], head |-> 0, tail |-> 0]

\* the guard of push: next != tail
MbufHasRoom(m) == (m.head + 1) % MBUF_SIZE # m.tail

\* A push that stores its byte one slot too far.
MbufPushAtNext(m, d) ==
  LET next == (m.head + 1) % MBUF_SIZE
  IN  IF next # m.tail
      THEN [m EXCEPT !.buf[next] = d, !.head = next]
      ELSE m

\* A push that overwrites the oldest byte when the buffer is full.
MbufPushOverwrite(m, d) ==
  LET next == (m.head + 1) % MBUF_SIZE
  IN  IF next # m.tail
      THEN [m EXCEPT !.buf[m.head] = d, !.head = next]
      ELSE [m EXCEPT !.buf[m.head] = d, !.head = next,
                     !.tail = (m.tail + 1) % MBUF_SIZE]

\* void push(uint8_t data)
MbufPush(m, d) ==
  LET next == (m.head + 1) % MBUF_SIZE
  IN  IF next # m.tail
      THEN [m EXCEPT !.buf[m.head] = d, !.head = next]
      ELSE m

\* bool empty(void)
MbufEmpty(m) == m.head = m.tail

\* uint8_t pull(void): the value returned
MbufPullRet(m) == IF m.head # m.tail THEN m.buf[m.tail] ELSE 0

\* uint8_t pull(void): the buffer afterwards
MbufPull(m) ==
  IF m.head # m.tail
  THEN [m EXCEPT !.tail = (m.tail + 1) % MBUF_SIZE]
  ELSE m

\* void reset(void)
MbufReset(m) == [m EXCEPT !.head = 0, !.tail = 0]

\* The bytes buffered, oldest first (what successive pulls will return).
MbufCount(m) == (m.head - m.tail + MBUF_SIZE) % MBUF_SIZE
MbufContents(m) ==
  [i \in 1..MbufCount(m) |-> m.buf[(m.tail + i - 1) % MBUF_SIZE]]

(***************************************************************************)
(* ps2_ISR: the receiver (lines 223-274).                                  *)
(***************************************************************************)
NONE   == 0
START  == 1
BIT0   == 2
BIT7   == 9
PARITY == 10
STOP   == 11

\* case START: if (pin_DATA) goto error;
StartError(pin) == pin = 1

\* A parity check with the sense inverted (even parity accepted).
ParityErrorEven(pin, par) == pin # par

\* case PARITY: if (pin_DATA == parity) goto error;
ParityError(pin, par) == pin = par

\* A receiver that does not look at the stop bit.
StopErrorNever(pin) == FALSE

\* case STOP: if (!pin_DATA) goto error;
StopError(pin) == pin = 0

\* case BIT0...BIT7: data >>= 1; if (pin_DATA) { data |= 0x80; parity ^= 1; }
ShiftIn(d, pin) == (d \div 2) + (IF pin = 1 THEN 128 ELSE 0)

\* One invocation of ps2_ISR with the levels it reads on the two pins.
\* The result: the static state afterwards, the byte handed to mbuf.push
\* (<<>>: no call) and the code written to ps2_error (<<>>: no write).
ps2_ISR(s, clk, dat) ==
  LET keep  == [bit |-> s.bit, data |-> s.data, parity |-> s.parity,
                push |-> <<>>, err |-> <<>>]
      b     == (s.bit + 1) % 256                               \* bit++
      idle  == [bit |-> NONE, data |-> 0, parity |-> 0]
      error == [bit |-> NONE, data |-> 0, parity |-> 0,
                push |-> <<>>, err |-> <<b>>]
      done  == [bit |-> NONE, data |-> 0, parity |-> 0,
                push |-> <<s.data>>, err |-> <<>>]
      next  == [keep EXCEPT !.bit = b]
  IN  IF clk = 1 THEN keep                     \* if (pin_CLK) return;
      ELSE IF b = START THEN (IF StartError(dat) THEN error ELSE next)
      ELSE IF b >= BIT0 /\ b <= BIT7
        THEN [next EXCEPT !.data = ShiftIn(s.data, dat),
                          !.parity = IF dat = 1 THEN 1 - s.parity ELSE s.parity]
      ELSE IF b = PARITY THEN (IF ParityError(dat, s.parity) THEN error ELSE next)
      ELSE IF b = STOP THEN (IF StopError(dat) THEN error ELSE done)
      ELSE error                                               \* default:

(***************************************************************************)
(* Signed 8-bit values and C's integer division.                           *)
(***************************************************************************)
\* (int8_t)b of a byte, and the int8_t an int converts to
ToInt8(b) == IF b < 128 THEN b ELSE b - 256
WrapInt8(x) == ToInt8(x % 256)

\* a / b of C: the quotient truncated toward zero (b > 0)
TruncDiv(a, b) == IF a >= 0 THEN a \div b ELSE -((-a) \div b)

(***************************************************************************)
(* MyTimer (lines 130-152).                                                *)
(***************************************************************************)
TimerPeriod == 30000
TimerLimit == 60

\* MyTimer() { start_time = 0; count = 0; enabled = true; }
MyTimerInit == [start_time |-> 0, count |-> 0, enabled |-> TRUE]

\* void reset(void) { start_time = millis(); count = 0; }
MyTimerReset(t, ms) == [t EXCEPT !.start_time = ms, !.count = 0]

\* now - start_time.  millis() stays far below the wrap of unsigned long in
\* the time the model lets pass, and start_time never passes now, so the
\* difference is taken without the wrap.
Elapsed(t, ms) == ms - t.start_time

\* An action() that still fires when count has reached the limit.
MyTimerActionOffByOne(t, ms) ==
  IF ~t.enabled \/ t.count > TimerLimit THEN [ret |-> FALSE, t |-> t]
  ELSE IF Elapsed(t, ms) < TimerPeriod THEN [ret |-> FALSE, t |-> t]
  ELSE LET k == Elapsed(t, ms) \div TimerPeriod
           u == [t EXCEPT !.count = t.count + k,
                          !.start_time = t.start_time + k * TimerPeriod]
       IN  [ret |-> u.count <= TimerLimit, t |-> u]

\* bool action(void): the value returned and the timer afterwards.  The
\* while loop runs once per whole period elapsed.
MyTimerAction(t, ms) ==
  IF ~t.enabled \/ t.count > TimerLimit THEN [ret |-> FALSE, t |-> t]
  ELSE IF Elapsed(t, ms) < TimerPeriod THEN [ret |-> FALSE, t |-> t]
  ELSE LET k == Elapsed(t, ms) \div TimerPeriod
           u == [t EXCEPT !.count = t.count + k,
                          !.start_time = t.start_time + k * TimerPeriod]
       IN  [ret |-> u.count < TimerLimit, t |-> u]

(***************************************************************************)
(* ps2pp_decode (lines 432-468) and map_buttons (lines 516-536).           *)
(***************************************************************************)
\* (b0 & 0x48) == 0x48 && (b1 & 0x02) == 0x02
IsPs2pp(b0, b1) == BitAnd(b0, 72) = 72 /\ BitAnd(b1, 2) = 2

\* (b0 & 0x30) == 0x0 && (b1 & 0xf0) == 0xd0
IsXtraInfo(b0, b1) == BitAnd(b0, 48) = 0 /\ BitAnd(b1, 240) = 208

\* A decoder that recognizes no Report.
ps2pp_decode_none(b0, b1, b2, xtra) == [ext |-> FALSE, xtra |-> xtra]

\* A decoder that takes the auxiliary buttons from every extended packet,
\* whatever its subtype.
ps2pp_decode_any_subtype(b0, b1, b2, xtra) ==
  IF ~IsPs2pp(b0, b1) THEN [ext |-> FALSE, xtra |-> xtra]
  ELSE [ext |-> TRUE, xtra |-> BitAnd(b2, 48)]

\* bool ps2pp_decode(b0, b1, b2): the value returned and xtrabutton afterwards
ps2pp_decode(b0, b1, b2, xtra) ==
  IF ~IsPs2pp(b0, b1) THEN [ext |-> FALSE, xtra |-> xtra]
  ELSE IF IsXtraInfo(b0, b1) THEN [ext |-> TRUE, xtra |-> BitAnd(b2, 48)]
  ELSE [ext |-> TRUE, xtra |-> xtra]

\* A left-handed mapping that exchanges left and right but leaves the two
\* auxiliary buttons in their right-handed roles.
map_buttons_aux_unswapped(lh, mstat, xtra) ==
  IF ~lh
  THEN BitOr(BitOr(BitAnd(mstat, 7), IF BitAnd(xtra, 32) # 0 THEN 4 ELSE 0),
             IF BitAnd(xtra, 16) # 0 THEN 16 ELSE 0)
  ELSE BitOr(BitOr(BitOr(IF BitAnd(mstat, 1) # 0 THEN 2 ELSE 0,
                         IF BitAnd(mstat, 2) # 0 THEN 1 ELSE 0),
                   IF BitAnd(xtra, 32) # 0 THEN 4 ELSE 0),
             IF BitAnd(xtra, 16) # 0 THEN 16 ELSE 0)

\* A right-handed mapping that takes the middle button from the status byte
\* only.
map_buttons_status_middle(lh, mstat, xtra) ==
  IF ~lh
  THEN BitOr(BitAnd(mstat, 7), IF BitAnd(xtra, 16) # 0 THEN 16 ELSE 0)
  ELSE BitOr(BitOr(BitOr(IF BitAnd(mstat, 1) # 0 THEN 2 ELSE 0,
                         IF BitAnd(mstat, 2) # 0 THEN 1 ELSE 0),
                   IF BitAnd(xtra, 16) # 0 THEN 4 ELSE 0),
             IF BitAnd(xtra, 32) # 0 THEN 16 ELSE 0)

\* uint8_t map_buttons(mstat, xtra), with the global lefthanded it reads
map_buttons(lh, mstat, xtra) ==
  IF ~lh
  THEN BitOr(BitOr(BitAnd(mstat, 7), IF BitAnd(xtra, 32) # 0 THEN 4 ELSE 0),
             IF BitAnd(xtra, 16) # 0 THEN 16 ELSE 0)
  ELSE BitOr(BitOr(BitOr(IF BitAnd(mstat, 1) # 0 THEN 2 ELSE 0,
                         IF BitAnd(mstat, 2) # 0 THEN 1 ELSE 0),
                   IF BitAnd(xtra, 16) # 0 THEN 4 ELSE 0),
             IF BitAnd(xtra, 32) # 0 THEN 16 ELSE 0)

(***************************************************************************)
(* loop(): the translation of one Report (lines 575-634).                  *)
(***************************************************************************)
bimask == <<1, 2, 4, 16>>
bomask == <<1, 2, 4, 8>>

MoveEv(x, y, z) == <<"move", x, y, z>>

\* A scroll emulation whose divisions round down.
ScrollEmuFloor(sum, my) ==
  LET s0   == my \div 8
      sum1 == IF s0 = 0 THEN WrapInt8(sum + my) ELSE sum
      s1   == IF s0 = 0 THEN sum1 \div 8 ELSE s0
  IN  [scroll |-> s1, sum |-> IF s1 # 0 THEN 0 ELSE sum1]

\* A scroll emulation that carries the remainder over a tick.
ScrollEmuCarry(sum, my) ==
  LET s0   == TruncDiv(my, 8)
      sum1 == IF s0 = 0 THEN WrapInt8(sum + my) ELSE sum
      s1   == IF s0 = 0 THEN TruncDiv(sum1, 8) ELSE s0
  IN  [scroll |-> s1, sum |-> IF s1 # 0 THEN sum1 - 8 * s1 ELSE sum1]

\* lines 597-607: the tick and scroll_sum afterwards
ScrollEmu(sum, my) ==
  LET s0   == TruncDiv(my, 8)                              \* scroll = my / 8
      sum1 == IF s0 = 0 THEN WrapInt8(sum + my) ELSE sum   \* scroll_sum += my
      s1   == IF s0 = 0 THEN TruncDiv(sum1, 8) ELSE s0     \* scroll_sum / 8
  IN  [scroll |-> s1, sum |-> IF s1 # 0 THEN 0 ELSE sum1]

\* Press and release calls that follow the level of the button.
ButtonEventsByLevel(bs, btn, is) ==
  LET ev(i) ==
        IF is /\ i = 4 THEN <<>>
        ELSE IF BitAnd(btn, bimask[i]) # 0 THEN << <<"press", bomask[i]>> >>
        ELSE << <<"release", bomask[i]>> >>
  IN  ev(1) \o ev(2) \o ev(3) \o ev(4)

\* lines 621-630: the press and release calls, button by button
ButtonEvents(bs, btn, is) ==
  LET ev(i) ==
        IF is /\ i = 4 THEN <<>>
        ELSE IF ~bs[i] /\ BitAnd(btn, bimask[i]) # 0 THEN << <<"press", bomask[i]>> >>
        ELSE IF bs[i] /\ BitAnd(btn, bimask[i]) = 0 THEN << <<"release", bomask[i]>> >>
        ELSE <<>>
  IN  ev(1) \o ev(2) \o ev(3) \o ev(4)

\* lines 621-630: buttons[] afterwards
ButtonsAfter(bs, btn, is) ==
  [i \in 1..4 |-> IF is /\ i = 4 THEN bs[i] ELSE BitAnd(btn, bimask[i]) # 0]

\* An overflow check that looks at the Y overflow bit only.
HasOverflowY(mstat) == BitAnd(mstat, 128) # 0

\* mstat & 0xC0
HasOverflow(mstat) == BitAnd(mstat, 192) # 0

\* Lines 577-634 for the Report r: the globals afterwards, the Mouse calls
\* made, the branch taken.  c holds the globals before: lh, is, xtra,
\* buttons, sum, err, jt.
Translate(c, r, su, ms) ==
  LET mstat == r[1]
      mx    == ToInt8(r[2])
      my    == ToInt8(r[3])
      dec   == ps2pp_decode(mstat, r[2], r[3], c.xtra)
      btn   == map_buttons(c.lh, mstat, c.xtra)
      sc    == ScrollEmu(c.sum, my)
      bev   == ButtonEvents(c.buttons, btn, c.is)
      baf   == ButtonsAfter(c.buttons, btn, c.is)
      same  == [xtra |-> c.xtra, buttons |-> c.buttons, sum |-> c.sum,
                err |-> c.err, jt |-> c.jt, ev |-> <<>>, path |-> "none"]
  IN  IF dec.ext THEN [same EXCEPT !.xtra = dec.xtra, !.path = "ext"]
      ELSE IF su THEN [same EXCEPT !.path = "suspended"]
      ELSE IF HasOverflow(mstat) THEN [same EXCEPT !.err = mstat, !.path = "overflow"]
      ELSE IF c.is /\ BitAnd(btn, bimask[4]) # 0
        THEN [same EXCEPT
                !.sum = sc.sum,
                !.jt = IF sc.scroll # 0 THEN MyTimerReset(c.jt, ms) ELSE c.jt,
                !.ev = (IF sc.scroll # 0 THEN <<MoveEv(0, 0, sc.scroll)>> ELSE <<>>)
                       \o bev,
                !.buttons = baf,
                !.path = "scroll"]
        ELSE [same EXCEPT
                !.sum = 0,
                !.jt = IF mx # 0 \/ my # 0 THEN MyTimerReset(c.jt, ms) ELSE c.jt,
                !.ev = (IF mx # 0 \/ my # 0
                        THEN <<MoveEv(mx, WrapInt8(-my), 0)>> ELSE <<>>) \o bev,
                !.buttons = baf,
                !.path = "motion"]

\* The branches that return from loop() before its last statement.
EarlyReturn(p) == p \in {"ext", "suspended", "overflow"}

\* An idle jiggle that does not ask the host's state.
JiggleWhileSuspended(ret, su) == ret

\* lines 636-637: jiggletimer.action() returned ret, the host's state is su
JiggleNow(ret, su) == ret /\ ~su

\* lines 636-643: the Mouse calls of the idle jiggle
JiggleEvents == <<MoveEv(1, 0, 0), MoveEv(-1, 0, 0)>>

\* setup() has driven both lines low (lines 474-475); no interrupt is
\* attached yet.
BusInit == attached = FALSE /\ pin_CLK = 0 /\ pin_DATA = 0

TxInit ==
  /\ wpc = 0 /\ wdata = 0 /\ wms = 0 /\ wbits = <<>> /\ wresult = "none"
  /\ nwrites = 0 /\ wedges = 0
  /\ rwait = FALSE /\ retry = 0 /\ rms = 0 /\ rret = FALSE /\ nreads = 0
  /\ pending = <<>> /\ hbRead = <<>>

\* setup() has reached its call of mouse_setup() (line 498).
SetupInit ==
  /\ pc = "setup" /\ sidx = 1 /\ caller = "setup" /\ runs = 1 /\ faults = 0
  /\ sent = 0
  /\ runTx = <<>> /\ readLog = <<>> /\ clean = TRUE
  /\ missedAck = FALSE /\ txAtMiss = 0
  /\ BusInit /\ TxInit

\* The state before setup() and the first loop() (lines 154-171).
LoopInitWith(sm) ==
  /\ lefthanded = FALSE /\ internal_scrolling = TRUE /\ stream_mode = sm
  /\ xtrabutton = 0 /\ buttons = [i \in 1..4 |-> FALSE] /\ scroll_sum = 0
  /\ jiggletimer = MyTimerInit /\ heartbeat = MyTimerInit
  /\ now = 0 /\ led = 1
  /\ rep = <<>> /\ suspended = FALSE /\ path = "none" /\ events = <<>>
  /\ nudged = FALSE /\ recovered = FALSE
  /\ runLen = 0 /\ runSum = 0 /\ runSmall = TRUE /\ runPos = TRUE
  /\ runSix = TRUE /\ runWheel = <<>> /\ runMoves = 0 /\ released = TRUE
  /\ lastReal = 0 /\ lastCheck = 0 /\ nudges = 0
  /\ awake = TRUE /\ skipped = FALSE /\ asleep = TRUE /\ beats = 0
  /\ hostDown = [i \in 1..4 |-> 0]
  /\ mapIn = <<0, 0>> /\ mapRH = -1 /\ mapLH = -1
  /\ SetupInit

\* bool stream_mode = true (line 170)
LoopInit == LoopInitWith(TRUE)

(***************************************************************************)
(* The device's side of a frame: start 0, 8 data bits LSB first, odd       *)
(* parity, stop 1; a corrupted frame inverts some of start, parity, stop.  *)
(***************************************************************************)
OddParityBit(b) == 1 - (PopCount(b) % 2)

Corruptions == SUBSET {"start", "parity", "stop"}

Flip(v, on) == IF on THEN 1 - v ELSE v

FrameOf(b, k) ==
  <<Flip(0, "start" \in k)>>
  \o [i \in 1..8 |-> BitAt(b, i - 1)]
  \o <<Flip(OddParityBit(b), "parity" \in k), Flip(1, "stop" \in k)>>

\* Frames one behaviour of SpecRx carries.  The last of them ranges over
\* every byte; the frames before it, which bring the receiver and the Mailbox
\* into the state the last one meets, over PrefixBytes.
MaxFrames == 2
RxBytes == Byte
PrefixBytes == {1, 250}

RxInit ==
  /\ bit = NONE /\ data = 0 /\ parity = 0

WireInit ==
  /\ frame = <<>> /\ fpos = 0 /\ fbyte = 0 /\ fkind = {}
  /\ fidle = TRUE /\ fpushes = <<>> /\ ferrs = <<>> /\ fstart = <<>>
  /\ nframes = 0

MblogInit ==
  /\ npush = 0 /\ pushLog = <<>> /\ accLog = <<>> /\ pullLog = <<>>
  /\ pushAfterPull = FALSE /\ base = 0

\* The device begins to clock out a frame: one of Last with corruptions
\* Kinds if it is the last of the behaviour, one of First before.
StartFrameOf(First, Last, Kinds) ==
  /\ fpos = Len(frame)
  /\ nframes < MaxFrames
  /\ \E b \in (IF nframes + 1 < MaxFrames THEN First ELSE Last),
        k \in Kinds :
       /\ frame' = FrameOf(b, k)
       /\ fbyte' = b /\ fkind' = k
  /\ fpos' = 0
  /\ fidle' = (bit = NONE)
  /\ fpushes' = <<>> /\ ferrs' = <<>>
  /\ fstart' = MbufContents(mbuf)
  /\ nframes' = nframes + 1
  /\ UNCHANGED <<rxVars, ps2_error, mbuf, restRx>>

StartFrame == StartFrameOf(PrefixBytes, RxBytes, Corruptions)

\* The interrupt fires; r is what ps2_ISR does with the levels it read.
RunISR(r) ==
  /\ bit' = r.bit /\ data' = r.data /\ parity' = r.parity
  /\ mbuf' = IF r.push # <<>> THEN MbufPush(mbuf, r.push[1]) ELSE mbuf
  /\ ps2_error' = IF r.err # <<>> THEN r.err[1] ELSE ps2_error
  /\ fpushes' = fpushes \o r.push
  /\ ferrs' = ferrs \o r.err

\* A falling clock edge of the frame: CLK is low, DATA carries the next bit.
ClockEdge ==
  /\ fpos < Len(frame)
  /\ RunISR(ps2_ISR([bit |-> bit, data |-> data, parity |-> parity],
                    0, frame[fpos + 1]))
  /\ fpos' = fpos + 1
  /\ UNCHANGED <<frame, fbyte, fkind, fidle, fstart, nframes, restRx>>

\* The interrupt fires while CLK reads high (a glitch): ps2_ISR returns at once.
SpuriousEdge ==
  /\ \E dat \in {0, 1} :
       RunISR(ps2_ISR([bit |-> bit, data |-> data, parity |-> parity], 1, dat))
  /\ UNCHANGED <<frame, fpos, fbyte, fkind, fidle, fstart, nframes, restRx>>

InitRx ==
  /\ RxInit /\ ps2_error = 0 /\ mbuf = MbufInit /\ WireInit /\ MblogInit
  /\ LoopInit

NextRx ==
  \/ StartFrame
  \/ ClockEdge
  \/ SpuriousEdge

SpecRx == InitRx /\ [][NextRx]_vars

FrameDone == Len(frame) = 11 /\ fpos = 11

\* C1: a well-formed frame met by an idle receiver: nothing is pushed and no
\* error is recorded before its last edge; after its 11 edges mbuf.push has
\* been called exactly once, with the frame's byte, no error code has been
\* written, the bit-position counter is idle again, and the Mailbox (which
\* had room) holds that one byte more.
C1_WellFormedFrameDecoded ==
  (Len(frame) = 11 /\ fidle /\ fkind = {}) =>
     /\ ferrs = <<>>
     /\ fpos < 11 => fpushes = <<>> /\ MbufContents(mbuf) = fstart
     /\ fpos = 11 =>
          /\ fpushes = <<fbyte>>
          /\ bit = NONE /\ data = 0 /\ parity = 0
          /\ Len(fstart) < MBUF_SIZE - 1
               => MbufContents(mbuf) = Append(fstart, fbyte)

C1_Witness ==
  /\ FrameDone /\ fidle /\ fkind = {} /\ fbyte = 165
  /\ fstart = <<250>> /\ MbufContents(mbuf) = <<250, 165>>

\* C2: a frame with an inverted start bit, an inverted stop bit or a wrong
\* parity bit (or several of them), met by an idle receiver: no mbuf.push
\* call is made during its 11 edges, the Mailbox is as it was, and after the
\* 11 edges a non-zero error code has been written to ps2_error.
C2_CorruptFrameRejected ==
  (Len(frame) = 11 /\ fidle /\ fkind # {}) =>
     /\ fpushes = <<>>
     /\ MbufContents(mbuf) = fstart
     /\ \A i \in 1..Len(ferrs) : ferrs[i] # 0
     /\ fpos = 11 => ferrs # <<>> /\ ps2_error # 0

C2_Witness ==
  /\ FrameDone /\ fidle /\ fkind = {"start"} /\ fstart = <<250>>
  /\ ps2_error # 0 /\ bit # NONE

(***************************************************************************)
(* The Mailbox on its own: any interleaving of push and pull calls.  The   *)
(* n-th push carries the byte base + n (mod 256), so that every buffered   *)
(* byte differs from its neighbours and from the 0 an empty pull returns.  *)
(***************************************************************************)
MaxPushes == 17
MaxPulls == 17
MaxEmptyPulls == 2
Bases == {1, 246}

DataOf(n) == (base + n) % 256

MbPush ==
  /\ npush < MaxPushes
  /\ mbuf' = MbufPush(mbuf, DataOf(npush))
  /\ npush' = npush + 1
  /\ pushLog' = Append(pushLog, DataOf(npush))
  /\ accLog' = IF MbufHasRoom(mbuf) THEN Append(accLog, DataOf(npush)) ELSE accLog
  /\ pushAfterPull' = (pushAfterPull \/ pullLog # <<>>)
  /\ UNCHANGED <<restMbuf, pullLog, base>>

\* The values of the pulls that found a byte, in order.
RECURSIVE StoredPulls(_)
StoredPulls(log) ==
  IF log = <<>> THEN <<>>
  ELSE (IF log[1][2] THEN <<log[1][1]>> ELSE <<>>) \o StoredPulls(Tail(log))

\* Pulls that found the Mailbox empty.
EmptyPulls == Len(pullLog) - Len(StoredPulls(pullLog))

MbPull ==
  /\ Len(pullLog) < MaxPulls
  /\ MbufEmpty(mbuf) => EmptyPulls < MaxEmptyPulls
  /\ pullLog' = Append(pullLog, <<MbufPullRet(mbuf), ~MbufEmpty(mbuf)>>)
  /\ mbuf' = MbufPull(mbuf)
  /\ UNCHANGED <<restMbuf, npush, pushLog, accLog, pushAfterPull, base>>

InitMbuf ==
  /\ RxInit /\ ps2_error = 0 /\ mbuf = MbufInit /\ WireInit
  /\ npush = 0 /\ pushLog = <<>> /\ accLog = <<>> /\ pullLog = <<>>
  /\ pushAfterPull = FALSE /\ base \in Bases
  /\ LoopInit

NextMbuf == MbPush \/ MbPull

SpecMbuf == InitMbuf /\ [][NextMbuf]_vars

\* N pushes onto the empty Mailbox, then pulls: every pull so far returned
\* the byte of the push of the same rank.
FifoUpTo(n) ==
  (~pushAfterPull /\ npush <= n /\ Len(pullLog) <= npush) =>
     \A i \in 1..Len(pullLog) : pullLog[i] = <<pushLog[i], TRUE>>

\* C3 (as amended): for every N up to 15, the bytes a 16-slot ring can hold,
\* N pushes onto the empty Mailbox followed by N pulls return exactly the
\* pushed bytes in FIFO order.
C3_FifoUpToFifteen == FifoUpTo(MBUF_SIZE - 1)

C3_Witness ==
  /\ ~pushAfterPull /\ npush = MBUF_SIZE - 1 /\ Len(pullLog) = MBUF_SIZE - 1
  /\ base = 246 /\ pullLog[11] = <<0, TRUE>>

\* C3 as stated: the same for every N up to the 16 slots.
C3_FifoUpToSixteen == FifoUpTo(MBUF_SIZE)

\* C4: a push onto a full Mailbox leaves the Mailbox as it was, and at any
\* time the bytes pulled so far followed by the bytes still buffered are
\* exactly the accepted pushes, in push order.
C4_DropKeepsBuffer ==
  /\ [](StoredPulls(pullLog) \o MbufContents(mbuf) = accLog)
  /\ [][(npush' = npush + 1 /\ ~MbufHasRoom(mbuf))
        => (mbuf' = mbuf /\ accLog' = accLog)]_vars

C4_Witness ==
  /\ Len(accLog) = MBUF_SIZE - 1 /\ npush = MBUF_SIZE + 1
  /\ Len(pullLog) = MBUF_SIZE - 1 /\ StoredPulls(pullLog) = accLog

(***************************************************************************)
(* loop() (lines 538-644): one iteration.  The three bytes the Mailbox     *)
(* yields, the levels of the three switches, the time that has passed,     *)
(* the host's suspend state and whether a mouse_write of this iteration    *)
(* runs into its timeout are inputs.  Run is the number of Reports of a     *)
(* scroll run the history variables follow.  The recovery of lines 552-559 is     *)
(* taken by its effect on ps2_error: cleared, and set to 0x10 again when   *)
(* a mouse_write of mouse_setup() times out.                               *)
(***************************************************************************)
\* Reports of a scroll run that are followed one by one.
MaxRun == 5

\* The whole milliseconds the model lets pass (a multiple of TimerPeriod).
MaxPeriods == 62

IsMove(e) == e[1] = "move"

\* The motion events (dx or dy not zero) among evs.
MotionCount(evs) ==
  Cardinality({i \in 1..Len(evs) : IsMove(evs[i]) /\ (evs[i][2] # 0 \/ evs[i][3] # 0)})

\* The wheel ticks among evs, in order.
WheelTicks(evs) ==
  LET w(i) == IF IsMove(evs[i]) /\ evs[i][4] # 0 THEN <<evs[i][4]>> ELSE <<>>
      F[i \in 0..Len(evs)] == IF i = 0 THEN <<>> ELSE F[i - 1] \o w(i)
  IN  F[Len(evs)]

\* The buttons on the host after the calls evs: Mouse.press(b) sets the
\* button b in the USB report and Mouse.release(b) clears it (lines 626, 628).
HostAfter(h, evs) ==
  [i \in 1..4 |->
     h[i] + Cardinality({k \in 1..Len(evs) : evs[k] = <<"press", bomask[i]>>})
          - Cardinality({k \in 1..Len(evs) : evs[k] = <<"release", bomask[i]>>})]

\* Lines 575-634 for what mouse_ready() finds: r, or nothing.
Handle(c, r, su, ms) ==
  IF r = <<>>
  THEN [xtra |-> c.xtra, buttons |-> c.buttons, sum |-> c.sum,
        err |-> c.err, jt |-> c.jt, ev |-> <<>>, path |-> "none"]
  ELSE Translate(c, r, su, ms)

\* A recovery that only a transmit timeout starts.
RecoversOnTimeoutOnly(err) == err = 16

\* if (ps2_error) (line 552)
Recovers(err) == err # 0

\* ps2_error after lines 552-574: the recovery clears it, a mouse_write that
\* times out (wf) sets it to 0x10.
ErrorAfterWrites(err, writes, wf) ==
  IF wf /\ (err # 0 \/ writes) THEN 16 ELSE 0

\* Lines 560-644 but for the commands sent: in holds the switches as read
\* (left, scroll, jiggle), what mouse_ready() found (r), the host's state
\* (su), millis() (ms), what heartbeat.action() returned (hbA), ps2_error
\* when mouse_ready() is called (err) and the Reports of a scroll run to
\* follow (run).
LoopTail(in) ==
  \* lines 575-634
  \E t \in {Handle([lh |-> in.left, is |-> in.scroll, xtra |-> xtrabutton,
                    buttons |-> buttons, sum |-> scroll_sum, err |-> in.err,
                    jt |-> [jiggletimer EXCEPT !.enabled = in.jiggle]],
                   in.r, in.su, in.ms)} :
  \* lines 636-643
  \E jA \in {MyTimerAction(t.jt, in.ms)} :
  \E jig \in {~EarlyReturn(t.path)} :
  \E nud \in {jig /\ JiggleNow(jA.ret, in.su)} :
  \E moved \in {t.ev # <<>> /\ IsMove(t.ev[1])} :
    /\ now' = in.ms
    /\ lefthanded' = in.left
    /\ internal_scrolling' = in.scroll
    /\ stream_mode' = stream_mode
    /\ heartbeat' = IF ~stream_mode THEN heartbeat
                    ELSE IF in.hbA.ret THEN MyTimerReset(in.hbA.t, in.ms)
                    ELSE in.hbA.t
    /\ xtrabutton' = t.xtra
    /\ buttons' = t.buttons
    /\ scroll_sum' = t.sum
    /\ ps2_error' = t.err
    /\ jiggletimer' = IF jig THEN jA.t ELSE t.jt
    /\ rep' = in.r /\ suspended' = in.su /\ path' = t.path
    /\ events' = t.ev \o (IF nud THEN JiggleEvents ELSE <<>>)
    /\ nudged' = nud
    \* the scroll run
    /\ IF t.path = "scroll" /\ runLen < in.run /\ (runLen > 0 \/ scroll_sum = 0)
       THEN /\ runLen' = runLen + 1
            /\ runSum' = runSum + ToInt8(in.r[3])
            /\ runSmall' = (runSmall /\ ToInt8(in.r[3]) < 8)
            /\ runPos' = (runPos /\ ToInt8(in.r[3]) >= 0)
            /\ runSix' = (runSix /\ in.r[3] = 6)
            /\ runWheel' = runWheel \o WheelTicks(t.ev)
            /\ runMoves' = runMoves + MotionCount(t.ev)
       ELSE IF t.path = "none" /\ runLen < in.run
       THEN UNCHANGED <<runLen, runSum, runSmall, runPos, runSix, runWheel,
                        runMoves>>
       ELSE /\ runLen' = 0 /\ runSum' = 0 /\ runSmall' = TRUE /\ runPos' = TRUE
            /\ runSix' = TRUE /\ runWheel' = <<>> /\ runMoves' = 0
    /\ released' = IF t.path = "scroll" THEN FALSE
                   ELSE IF t.path = "motion" THEN TRUE
                   ELSE IF t.path = "ext"
                     THEN released
                          \/ BitAnd(map_buttons(in.left, 0, t.xtra), bimask[4]) = 0
                   ELSE released
    \* the idle timer
    /\ lastReal' = IF moved THEN in.ms ELSE lastReal
    /\ lastCheck' = IF jig \/ moved THEN in.ms ELSE lastCheck
    /\ nudges' = (IF moved THEN 0 ELSE nudges) + (IF nud THEN 1 ELSE 0)
    /\ awake' = ((moved \/ awake) /\ in.jiggle /\ ~in.su)
    /\ asleep' = (asleep /\ in.su)
    /\ beats' = IF stream_mode /\ in.hbA.ret THEN beats + 1 ELSE beats
    /\ hostDown' = HostAfter(hostDown, t.ev)
    /\ skipped' = ((~moved /\ skipped)
                    \/ (jig /\ Elapsed(t.jt, in.ms) >= 2 * TimerPeriod))

Loop(Switches, Reports, Steps, Suspends, Fails, Run) ==
  /\ now <= MaxPeriods * TimerPeriod
  /\ \E sw \in Switches, r \in Reports, dt \in Steps, su \in Suspends, wf \in Fails :
      \* lines 560-574
      \E hbA \in {MyTimerAction(heartbeat, now + dt)} :
        /\ LoopTail([left |-> sw.left, scroll |-> sw.scroll, jiggle |-> sw.jiggle,
                     r |-> r, su |-> su, ms |-> now + dt, hbA |-> hbA,
                     err |-> ErrorAfterWrites(ps2_error,
                                              ~stream_mode \/ hbA.ret, wf),
                     run |-> Run])
        /\ led' = 1 - led
        /\ recovered' = Recovers(ps2_error)
        /\ UNCHANGED <<rxVars, mbuf, wireVars, mblogVars, mapVars, setupVars,
                       busVars, txVars>>

InitLoop ==
  /\ RxInit /\ ps2_error = 0 /\ mbuf = MbufInit /\ WireInit /\ MblogInit
  /\ LoopInit

(***************************************************************************)
(* The scroll emulation: the right-handed unit with the scroll switch on,  *)
(* the scroll role taken and released by extended packets, no time passes. *)
(***************************************************************************)
ScSwitches == {[scroll |-> TRUE, left |-> FALSE, jiggle |-> TRUE]}

\* dy as int8_t: -16, -7, 3, 6, 7, 8
ScDy == {240, 249, 3, 6, 7, 8}

ScReports ==
  {<<>>, <<200, 210, 16>>, <<200, 210, 0>>, <<8, 5, 6>>}
    \cup {<<8, 0, y>> : y \in ScDy}

NextScroll == Loop(ScSwitches, ScReports, {0}, {FALSE}, {FALSE}, MaxRun)

SpecScroll == InitLoop /\ [][NextScroll]_vars

AllOnes(w) == \A i \in 1..Len(w) : w[i] = 1

\* C6 (as the code has it): with the scroll switch on and the scroll role
\* held, a run of delta-Y values that starts from a zero accumulator emits no
\* motion event; four values of 6 emit two wheel ticks of 1 (one each time
\* the accumulator reaches 8, the remainder then dropped); and every run of
\* values in 0..7 that sums to 24 emits at most three ticks, each of 1.
C6_ScrollTicks ==
  /\ runMoves = 0
  /\ (runSix /\ runLen = 4 => runWheel = <<1, 1>>)
  /\ (runSmall /\ runPos /\ runSum = 24 => Len(runWheel) <= 3 /\ AllOnes(runWheel))

C6_Witness ==
  /\ runSix /\ runLen = 4 /\ runSum = 24 /\ runWheel = <<1, 1>>
  /\ path = "scroll" /\ xtrabutton = 16 /\ internal_scrolling

\* C6 (as stated): a run of values below 8 that sums to 24 emits exactly one
\* wheel tick of 3 and no motion event.
C6_OneTickOfThree ==
  (runSmall /\ runLen > 0 /\ runSum = 24) => (runWheel = <<3>> /\ runMoves = 0)

(***************************************************************************)
(* The translation: Reports, switches and the host's state vary, no time   *)
(* passes.                                                                 *)
(***************************************************************************)
XlSwitches ==
  {[scroll |-> s, left |-> l, jiggle |-> TRUE] : s \in BOOLEAN, l \in BOOLEAN}

\* Extended packets: the auxiliary-button subtype (b0 0xC8, b1 0xD2) with
\* each state of the two buttons, once with other bits of b2 set, and two
\* other subtypes.
XlExtended ==
  {<<200, 210, 0>>, <<200, 210, 16>>, <<200, 210, 239>>,
   <<200, 2, 48>>, <<232, 210, 16>>}

\* Motion Reports: buttons, with and without the overflow bits, two carrying
\* the tag bits of b0 without the tag bit of b1.
XlMotion ==
  {<<8, 0, 0>>, <<9, 5, 6>>, <<72, 5, 6>>, <<136, 5, 6>>, <<200, 1, 6>>}

NextXlate == Loop(XlSwitches, {<<>>} \cup XlExtended \cup XlMotion, {0}, BOOLEAN, {FALSE}, 0)

SpecXlate == InitLoop /\ [][NextXlate]_vars

\* -my as the signed char Mouse.move() takes
NegInt8(b) == IF ToInt8(b) = -128 THEN -128 ELSE -ToInt8(b)

\* C8 (as the code has it): a Report with (b0 & 0x48) == 0x48 and
\* (b1 & 0x02) == 0x02 emits no event and changes no button; the auxiliary
\* state becomes b2 & 0x30 if (b0 & 0x30) == 0 and (b1 & 0xf0) == 0xd0 and is
\* unchanged otherwise.  Any other Report leaves the auxiliary state
\* unchanged; it is translated (motion, or wheel when the scroll role is
\* held) only if the host is not suspended and the bits 0xC0 of b0 are
\* clear, and emits nothing otherwise, bits 0xC0 raising the link error.
C8_ExtendedPacket ==
  [][ (led' # led /\ rep' # <<>>) =>
        LET b0  == rep'[1]
            b1  == rep'[2]
            b2  == rep'[3]
            tag == BitAnd(b0, 72) = 72 /\ BitAnd(b1, 2) = 2
            aux == BitAnd(b0, 48) = 0 /\ BitAnd(b1, 240) = 208
            ovf == BitAnd(b0, 192) # 0
        IN  /\ tag => /\ path' = "ext" /\ events' = <<>> /\ buttons' = buttons
                      /\ xtrabutton' = IF aux THEN BitAnd(b2, 48) ELSE xtrabutton
            /\ ~tag => /\ path' # "ext" /\ xtrabutton' = xtrabutton
                       /\ (suspended' \/ ovf) =>
                            /\ events' = <<>> /\ buttons' = buttons
                            /\ path' = (IF suspended' THEN "suspended" ELSE "overflow")
                            /\ (~suspended' => ps2_error' = b0)
                       /\ ~(suspended' \/ ovf) =>
                            /\ path' \in {"motion", "scroll"}
                            /\ (path' = "motion" /\ (b1 # 0 \/ b2 # 0)) =>
                                 (events' # <<>> /\
                                  events'[1] = MoveEv(ToInt8(b1), NegInt8(b2), 0))
  ]_vars

C8_Witness ==
  /\ rep = <<200, 210, 239>> /\ path = "ext" /\ xtrabutton = 32 /\ events = <<>>

\* C8 (as stated): every Report that does not match the tag pattern is
\* translated as ordinary motion.
C8_NotExtendedIsMotion ==
  [][ (led' # led /\ rep' # <<>>
        /\ ~(BitAnd(rep'[1], 72) = 72 /\ BitAnd(rep'[2], 2) = 2)) =>
        (xtrabutton' = xtrabutton /\ path' \in {"motion", "scroll"}) ]_vars

(***************************************************************************)
(* The timers: time passes, half a period at a time.  The switch and the   *)
(* host's suspend state change, and Reports other than motion arrive, in   *)
(* the first BusyPeriods periods; after that they stay as they are and no  *)
(* Report arrives.                                                         *)
(***************************************************************************)
BusyPeriods == 3

TmSteps == {0, TimerPeriod \div 2}

TmSwitches ==
  {[scroll |-> TRUE, left |-> FALSE, jiggle |-> j] : j \in BOOLEAN}

\* No Report, a motion Report, an extended packet, a Report with overflow.
TmReports == {<<>>, <<8, 1, 0>>, <<200, 2, 0>>, <<136, 0, 0>>}

TimerBusy ==
  /\ now < BusyPeriods * TimerPeriod
  /\ Loop(TmSwitches, TmReports, TmSteps, BOOLEAN, BOOLEAN, 0)

TimerIdle ==
  /\ now >= BusyPeriods * TimerPeriod
  /\ Loop({[scroll |-> TRUE, left |-> FALSE, jiggle |-> jiggletimer.enabled]},
          {<<>>}, TmSteps, {suspended}, {FALSE}, 0)

NextTimer == TimerBusy \/ TimerIdle

SpecTimer == InitLoop /\ [][NextTimer]_vars

Min(a, b) == IF a < b THEN a ELSE b

\* The thresholds passed between the last real motion and the time ms.
Thresholds(ms) == (ms - lastReal) \div TimerPeriod

BeatBusy == 2

BtSwitches == {[scroll |-> TRUE, left |-> FALSE, jiggle |-> TRUE]}

\* No Report, a Report of the left button without motion, the button
\* released, a motion Report.
BtReports == {<<>>, <<9, 0, 0>>, <<8, 0, 0>>, <<8, 1, 0>>}

BeatEarly ==
  /\ now < BeatBusy * TimerPeriod
  /\ Loop(BtSwitches, BtReports, TmSteps, {FALSE}, {FALSE}, 0)

BeatLate ==
  /\ now >= BeatBusy * TimerPeriod
  /\ Loop(BtSwitches, {<<>>}, TmSteps, {FALSE}, {FALSE}, 0)

NextBeat == BeatEarly \/ BeatLate

SpecBeat == InitLoop /\ [][NextBeat]_vars

\* C21 (as stated): an iteration of loop() that emits a press or a release
\* leaves jiggletimer reset: count 0 and start_time the time of the event.
C21_ButtonResetsIdleTimer ==
  [][(led' # led /\ \E k \in 1..Len(events') :
                       events'[k][1] \in {"press", "release"}) =>
      (jiggletimer'.count = 0 /\ jiggletimer'.start_time = now')]_vars

\* C22 (as stated): in stream mode the heartbeat sends its status request
\* at most 60 times in all.
C22_HeartbeatBounded ==
  stream_mode => beats <= TimerLimit

(***************************************************************************)
(* map_buttons on its own: every status byte, every auxiliary state.       *)
(***************************************************************************)
XtraStates == {0, 16, 32, 48}

MapApply ==
  /\ mapRH = -1
  /\ mapRH' = map_buttons(FALSE, mapIn[1], mapIn[2])
  /\ mapLH' = map_buttons(TRUE, mapIn[1], mapIn[2])
  /\ UNCHANGED <<rxVars, ps2_error, mbuf, wireVars, mblogVars, progVars,
                 iterVars, recovered, runVars, idleVars, mapIn, setupVars,
                 busVars, txVars>>

InitMap ==
  /\ RxInit /\ ps2_error = 0 /\ mbuf = MbufInit /\ WireInit /\ MblogInit
  /\ lefthanded = FALSE /\ internal_scrolling = TRUE /\ stream_mode = TRUE
  /\ xtrabutton = 0 /\ buttons = [i \in 1..4 |-> FALSE] /\ scroll_sum = 0
  /\ jiggletimer = MyTimerInit /\ heartbeat = MyTimerInit
  /\ now = 0 /\ led = 1
  /\ rep = <<>> /\ suspended = FALSE /\ path = "none" /\ events = <<>>
  /\ nudged = FALSE /\ recovered = FALSE
  /\ runLen = 0 /\ runSum = 0 /\ runSmall = TRUE /\ runPos = TRUE
  /\ runSix = TRUE /\ runWheel = <<>> /\ runMoves = 0 /\ released = TRUE
  /\ lastReal = 0 /\ lastCheck = 0 /\ nudges = 0
  /\ awake = TRUE /\ skipped = FALSE /\ asleep = TRUE /\ beats = 0
  /\ hostDown = [i \in 1..4 |-> 0]
  /\ mapIn \in Byte \X XtraStates /\ mapRH = -1 /\ mapLH = -1
  /\ SetupInit

NextMap == MapApply

SpecMap == InitMap /\ [][NextMap]_vars

(***************************************************************************)
(* The bring-up: mouse_setup() (lines 381-430), called by setup() and by   *)
(* the recovery of loop() (lines 552-559), step by step.  A command is     *)
(* clocked in by the device and answered, clocked in and not answered, or  *)
(* runs into the timeout of mouse_write(); an answer is in the Mailbox     *)
(* before the next step.  No time passes.  Both values of stream_mode are  *)
(* followed.                                                               *)
(***************************************************************************)
MaxRuns == 2
MaxFaults == 2
MaxSent == 1

PS2_RESET == 255
PS2_REPORT_ENA == 244
PS2_SET_REMOTE == 240

magic == <<232, 0, 232, 3, 232, 2, 232, 1, 230, 232, 3, 232, 1, 232, 2, 232, 3>>

WriteStep(b) == [op |-> "w", b |-> b, what |-> "cmd"]
ReadStep(what) == [op |-> "r", b |-> 0, what |-> what]

\* lines 383-390: reset, then the reads of the ack, 0xAA and the device ID
ResetSteps ==
  <<WriteStep(PS2_RESET), ReadStep("ack"), ReadStep("bat"), ReadStep("id")>>

\* lines 416-421
MagicSteps == [i \in 1..Len(magic) |-> WriteStep(magic[i])]

\* A bring-up that sets remote mode whatever stream_mode is.
SetupStepsAlwaysRemote(sm) ==
  ResetSteps
  \o <<WriteStep(PS2_SET_REMOTE), ReadStep("ack")>>
  \o MagicSteps
  \o (IF sm THEN <<WriteStep(PS2_REPORT_ENA), ReadStep("ack")>> ELSE <<>>)

\* mouse_setup(): the calls of mouse_write and mouse_read it makes, in order
SetupSteps(sm) ==
  ResetSteps
  \o (IF ~sm THEN <<WriteStep(PS2_SET_REMOTE), ReadStep("ack")>> ELSE <<>>)
  \o MagicSteps
  \o (IF sm THEN <<WriteStep(PS2_REPORT_ENA), ReadStep("ack")>> ELSE <<>>)

\* What the device sends for a command: the ack 0xFA, and after a reset the
\* self-test result 0xAA and the device ID 0x00.
Response(b) == IF b = PS2_RESET THEN <<250, 170, 0>> ELSE <<250>>

\* The interrupt's pushes for the bytes bs received one after the other.
PushAll(m, bs) ==
  LET F[i \in 0..Len(bs)] == IF i = 0 THEN m ELSE MbufPush(F[i - 1], bs[i])
  IN  F[Len(bs)]

\* bus_idle() (lines 276-280)
bus_idle == [clk |-> 1, dat |-> 1]

\* An error exit that releases both lines.
bus_stop_released == [clk |-> 1, dat |-> 1]

\* bus_stop() (lines 282-286)
bus_stop == [clk |-> 0, dat |-> 1]

\* A detachInterrupt that leaves the interrupt as it is.
AfterDetachNoop(att) == att

\* detachInterrupt(clk_interrupt) (line 318): the interrupt afterwards
AfterDetach(att) == FALSE

\* How a mouse_write can go: sent and answered; sent and not answered; sent
\* and the answer damaged on the wire; not sent within the deadline.
Outcomes ==
  IF faults < MaxFaults THEN {"acked", "silent", "garbled", "timeout"}
  ELSE {"acked"}

\* ps2_error after a mouse_write and the answer to it: 0x10 from the error
\* exit of mouse_write, the bit position from ps2_ISR on a parity error.
ErrorAfter(o, err) ==
  IF o = "timeout" THEN 16 ELSE IF o = "garbled" THEN PARITY ELSE err

\* The interrupt and the lines after a mouse_write.
BusAfterWrite(o) ==
  IF o = "timeout" THEN [att |-> FALSE, clk |-> bus_stop.clk, dat |-> bus_stop.dat]
  ELSE [att |-> TRUE, clk |-> bus_idle.clk, dat |-> bus_idle.dat]


\* The position after the step sidx.
Advance ==
  /\ sidx' = sidx + 1
  /\ pc' = IF sidx < Len(SetupSteps(stream_mode)) THEN "setup"
           ELSE IF caller = "setup" THEN "iter" ELSE "rest"

restSetup == <<rxVars, wireVars, mblogVars, progVars, iterVars, recovered,
               runVars, idleVars, mapVars, txVars>>

\* mouse_write(b) in mouse_setup (lines 312-355)
SetupWrite ==
  /\ pc = "setup"
  /\ SetupSteps(stream_mode)[sidx].op = "w"
  /\ \E o \in Outcomes, b \in {SetupSteps(stream_mode)[sidx].b} :
       /\ runTx' = IF o # "timeout" THEN Append(runTx, b) ELSE runTx
       /\ mbuf' = IF o = "acked" THEN PushAll(mbuf, Response(b)) ELSE mbuf
       /\ ps2_error' = ErrorAfter(o, ps2_error)
       /\ faults' = IF o = "acked" THEN faults ELSE faults + 1
       /\ clean' = (clean /\ o = "acked")
       /\ attached' = BusAfterWrite(o).att
       /\ pin_CLK' = BusAfterWrite(o).clk /\ pin_DATA' = BusAfterWrite(o).dat
  /\ Advance
  /\ UNCHANGED <<caller, runs, sent, readLog, missedAck, txAtMiss, restSetup>>

\* mouse_read() in mouse_setup (lines 374-379): the byte, or 0 after the
\* 200 ms of mouse_ready()
SetupRead ==
  /\ pc = "setup"
  /\ SetupSteps(stream_mode)[sidx].op = "r"
  /\ \E miss \in {MbufEmpty(mbuf) /\ SetupSteps(stream_mode)[sidx].what = "ack"
                     /\ ps2_error = 0} :
       /\ missedAck' = (missedAck \/ miss)
       /\ txAtMiss' = IF miss /\ ~missedAck THEN Len(runTx) ELSE txAtMiss
  /\ readLog' = Append(readLog, <<MbufPullRet(mbuf), ~MbufEmpty(mbuf)>>)
  /\ mbuf' = MbufPull(mbuf)
  /\ Advance
  /\ UNCHANGED <<ps2_error, caller, runs, faults, sent, runTx, clean, busVars,
                 restSetup>>

\* loop(), lines 548-559: the switches, the LED, and the recovery up to its
\* call of mouse_setup()
LoopTop ==
  /\ pc = "iter"
  /\ Recovers(ps2_error) => runs < MaxRuns
  /\ led' = 1 - led
  /\ internal_scrolling' = TRUE
  /\ jiggletimer' = [jiggletimer EXCEPT !.enabled = TRUE]
  /\ lefthanded' = FALSE
  /\ recovered' = Recovers(ps2_error)
  /\ IF Recovers(ps2_error)
     THEN /\ attached' = AfterDetach(attached)
          /\ pin_CLK' = bus_stop.clk /\ pin_DATA' = bus_stop.dat
          /\ ps2_error' = 0
          /\ mbuf' = MbufReset(mbuf)
          /\ pc' = "setup" /\ sidx' = 1 /\ caller' = "loop" /\ runs' = runs + 1
          /\ runTx' = <<>> /\ readLog' = <<>> /\ clean' = TRUE
          /\ missedAck' = FALSE /\ txAtMiss' = 0
          /\ UNCHANGED <<faults, sent>>
     ELSE /\ pc' = "rest"
          /\ UNCHANGED <<ps2_error, mbuf, sidx, caller, runs, faults, sent,
                         runTx, readLog, clean, missedAck, txAtMiss, busVars>>
  /\ UNCHANGED <<stream_mode, xtrabutton, buttons, scroll_sum, heartbeat, now,
                 rxVars, wireVars, mblogVars, iterVars, runVars, idleVars,
                 mapVars, txVars>>

\* What the device has to report: nothing, a motion, a Report with overflow.
DevReports ==
  IF sent < MaxSent THEN {<<>>, <<8, 1, 0>>, <<136, 0, 0>>} ELSE {<<>>}

\* The Report that answers PS2_READ_DATA when there is nothing to report.
NoMotion == <<8, 0, 0>>

\* loop(), lines 560-644.  In stream mode the device's Report, if any, is in
\* the Mailbox when mouse_ready() looks; in remote mode it follows the ack of
\* PS2_READ_DATA.  heartbeat.action() returns false as no time has passed.
LoopRest ==
  /\ pc = "rest"
  /\ \E dev \in DevReports, su \in BOOLEAN,
        o \in (IF stream_mode THEN {"acked"} ELSE Outcomes) :
       \* lines 560-563
       \E m0 \in {IF stream_mode THEN PushAll(mbuf, dev)
                  ELSE IF o = "acked"
                    THEN PushAll(mbuf, <<250>> \o (IF dev = <<>> THEN NoMotion ELSE dev))
                  ELSE mbuf} :
       \E m1 \in {IF stream_mode THEN m0 ELSE MbufPull(m0)} :
       \* lines 575-579
       \E m2 \in {MbufPull(m1)} :
       \E m3 \in {MbufPull(m2)} :
         /\ LoopTail([left |-> lefthanded, scroll |-> internal_scrolling,
                      jiggle |-> jiggletimer.enabled,
                      r |-> IF MbufEmpty(m1) THEN <<>>
                            ELSE <<MbufPullRet(m1), MbufPullRet(m2), MbufPullRet(m3)>>,
                      su |-> su, ms |-> now,
                      hbA |-> MyTimerAction(heartbeat, now),
                      err |-> ErrorAfter(o, ps2_error),
                      run |-> 0])
         /\ IF stream_mode THEN UNCHANGED busVars
            ELSE /\ attached' = BusAfterWrite(o).att
                 /\ pin_CLK' = BusAfterWrite(o).clk
                 /\ pin_DATA' = BusAfterWrite(o).dat
         /\ mbuf' = IF MbufEmpty(m1) THEN m1 ELSE MbufPull(m3)
         /\ faults' = IF o = "acked" THEN faults ELSE faults + 1
         /\ sent' = IF dev = <<>> THEN sent ELSE sent + 1
  /\ pc' = "iter"
  /\ UNCHANGED <<led, recovered, sidx, caller, runs, runTx, readLog, clean,
                 missedAck, txAtMiss, rxVars, wireVars, mblogVars, mapVars,
                 txVars>>

InitSetup ==
  /\ RxInit /\ ps2_error = 0 /\ mbuf = MbufInit /\ WireInit /\ MblogInit
  /\ \E sm \in BOOLEAN : LoopInitWith(sm)

NextSetup == SetupWrite \/ SetupRead \/ LoopTop \/ LoopRest

SpecSetup == InitSetup /\ [][NextSetup]_vars

IsPrefix(a, b) == Len(a) <= Len(b) /\ a = SubSeq(b, 1, Len(a))

\* C9: a call of mouse_setup() in which every command is sent and answered
\* transmits 0xFF, then (the ack, 0xAA and 0x00 read) 0xF0 in remote mode
\* only, then the 17 bytes e8 00 e8 03 e8 02 e8 01 e6 e8 03 e8 01 e8 02 e8 03,
\* then 0xF4 in stream mode only, and nothing else.
C9_BringUpOrder ==
  LET exp == <<255>>
             \o (IF stream_mode THEN <<>> ELSE <<240>>)
             \o <<232, 0, 232, 3, 232, 2, 232, 1, 230,
                  232, 3, 232, 1, 232, 2, 232, 3>>
             \o (IF stream_mode THEN <<244>> ELSE <<>>)
  IN  clean =>
        /\ IsPrefix(runTx, exp)
        /\ pc # "setup" => runTx = exp
        /\ Len(runTx) >= 2 =>
             (Len(readLog) >= 3 /\ SubSeq(readLog, 1, 3)
                = << <<250, TRUE>>, <<170, TRUE>>, <<0, TRUE>> >>)

C9_Witness ==
  /\ clean /\ pc = "rest" /\ caller = "loop" /\ ~stream_mode
  /\ Len(runTx) = 19 /\ runTx[2] = 240

\* C10 (as stated): once a mouse_read for the acknowledgment of a command
\* the device has taken has timed out, no further command of that bring-up
\* is transmitted, and loop() finds ps2_error set when the bring-up has
\* returned.
C10_MissingAckAbandons ==
  /\ missedAck => Len(runTx) = txAtMiss
  /\ (missedAck /\ pc = "iter") => ps2_error # 0

\* C12: an iteration of loop() that starts with ps2_error non-zero first
\* detaches the interrupt, stops the bus (CLK low, DATA released), clears
\* ps2_error, empties the Mailbox and starts mouse_setup() at the reset
\* command, with no event emitted and no Report taken; mouse_setup() runs
\* through all its steps without an event before the iteration goes on; and
\* ps2_error, once non-zero, becomes zero by this recovery only.
C12_RecoveryFirst ==
  /\ [][(pc = "iter" /\ ps2_error # 0 /\ led' # led) =>
          /\ pc' = "setup" /\ sidx' = 1 /\ caller' = "loop"
          /\ SetupSteps(stream_mode)[sidx'] = WriteStep(PS2_RESET)
          /\ ps2_error' = 0 /\ MbufEmpty(mbuf') /\ runTx' = <<>>
          /\ ~attached' /\ pin_CLK' = 0 /\ pin_DATA' = 1
          /\ recovered'
          /\ UNCHANGED <<iterVars, runVars, idleVars, buttons>>]_vars
  /\ [][pc = "setup" =>
          /\ UNCHANGED <<iterVars, runVars, idleVars, buttons>>
          /\ pc' # "setup" => sidx = Len(SetupSteps(stream_mode))
          /\ pc' = "setup" => sidx' = sidx + 1]_vars
  /\ [][(ps2_error # 0 /\ ps2_error' = 0) =>
          (pc = "iter" /\ pc' = "setup" /\ sidx' = 1)]_vars

C12_Witness ==
  /\ pc = "rest" /\ caller = "loop" /\ runs = 2 /\ clean /\ ps2_error = 0
  /\ attached /\ pin_CLK = 1 /\ pin_DATA = 1 /\ path = "overflow"

\* C13: an iteration of loop() in which the host is suspended emits no
\* event at all: no nudge, no motion, no wheel tick (and jiggletimer still
\* counts its thresholds); as long as the host has been suspended in every
\* iteration no nudge has been emitted.
C13_QuietWhileSuspended ==
  /\ suspended => (~nudged /\ events = <<>>)
  /\ asleep => nudges = 0

C13_Witness ==
  /\ asleep /\ suspended /\ nudges = 0 /\ jiggletimer.count = 3
  /\ now >= 3 * TimerPeriod

\* The events ev among evs.
CountOf(evs, ev) == Cardinality({k \in 1..Len(evs) : evs[k] = ev})

\* C14: when a Report is translated (as motion, or as scroll ticks), for
\* every button the loop handles (all four, or the first three while the
\* scroll switch is on) one press is emitted iff the stored state was
\* released and the mapped state is pressed, one release iff the stored
\* state was pressed and the mapped state is released, nothing otherwise,
\* and the stored state becomes the mapped state; the button the loop
\* skips has no event and keeps its stored state.
C14_EdgeTriggered ==
  [][(led' # led /\ path' \in {"motion", "scroll"}) =>
      \A i \in 1..4 :
        LET new == (map_buttons(lefthanded', rep'[1], xtrabutton) \div bimask[i]) % 2 = 1
            nP  == CountOf(events', <<"press", bomask[i]>>)
            nR  == CountOf(events', <<"release", bomask[i]>>)
        IN  IF internal_scrolling' /\ i = 4
            THEN nP = 0 /\ nR = 0 /\ buttons'[i] = buttons[i]
            ELSE /\ nP = (IF ~buttons[i] /\ new THEN 1 ELSE 0)
                 /\ nR = (IF buttons[i] /\ ~new THEN 1 ELSE 0)
                 /\ buttons'[i] = new]_vars

C14_Witness ==
  /\ path = "motion" /\ rep = <<9, 5, 6>> /\ xtrabutton = 32
  /\ ~internal_scrolling /\ ~lefthanded
  /\ buttons = <<TRUE, FALSE, TRUE, FALSE>>
  /\ events = <<MoveEv(5, -6, 0)>>

C16_DecoderBeforeOverflow ==
  /\ [][(led' # led /\ rep' # <<>>
          /\ BitAnd(rep'[1], 72) = 72 /\ BitAnd(rep'[2], 2) = 2) =>
          /\ (rep'[1] \div 64) % 2 = 1
          /\ path' = "ext" /\ ps2_error' = 0 /\ events' = <<>>]_vars
  /\ [][(led' # led /\ path = "ext") => ~recovered']_vars

C16_Witness ==
  /\ rep = <<232, 210, 16>> /\ path = "ext" /\ ps2_error = 0 /\ ~suspended
  /\ ~recovered /\ xtrabutton = 16

\* v with left/right (0x01, 0x02) and middle/scroll (0x04, 0x10) exchanged
Exchange(v) ==
  (IF BitAnd(v, 1) # 0 THEN 2 ELSE 0) + (IF BitAnd(v, 2) # 0 THEN 1 ELSE 0)
  + (IF BitAnd(v, 4) # 0 THEN 16 ELSE 0) + (IF BitAnd(v, 16) # 0 THEN 4 ELSE 0)
  + BitAnd(v, 232)

Bit(v, w) == (v \div w) % 2

\* C18: right-handed, for every status byte and every auxiliary state the
\* mapping has left, right and middle (0x01, 0x02, 0x04) from the same bits
\* of the status byte, middle also when the auxiliary bit 0x20 is set, the
\* scroll role (0x10) iff the auxiliary bit 0x10 is set, and no other bit;
\* the status bits 0x08..0x80 do not enter.
C18_RightHandedMap ==
  mapRH # -1 =>
    LET m == mapIn[1]
        x == mapIn[2]
        middle == IF Bit(m, 4) = 1 \/ Bit(x, 32) = 1 THEN 1 ELSE 0
    IN  mapRH = Bit(m, 1) + 2 * Bit(m, 2) + 4 * middle + 16 * Bit(x, 16)

C18_Witness ==
  mapIn = <<251, 32>> /\ mapRH = 7

\* x / 8 rounded toward zero
Eighth(x) == IF x >= 0 THEN x \div 8 ELSE -((-x) \div 8)

\* C19: with the scroll switch on, a Report translated with the scroll role
\* in its mapped buttons emits no motion event with a non-zero dx or dy,
\* whatever its delta-X and delta-Y; it emits one wheel event if delta-Y / 8
\* (toward zero) is not zero, or else if (scroll_sum + delta-Y) / 8 is not
\* zero, with that value as the tick, and scroll_sum is 0 afterwards; it
\* emits no movement event otherwise, and scroll_sum has taken delta-Y.
C19_ScrollOnlyWheel ==
  [][(led' # led /\ rep' # <<>> /\ ~EarlyReturn(path') /\ internal_scrolling'
      /\ Bit(map_buttons(lefthanded', rep'[1], xtrabutton), 16) = 1) =>
      LET my   == IF rep'[3] >= 128 THEN rep'[3] - 256 ELSE rep'[3]
          acc  == scroll_sum + my
          tick == IF Eighth(my) # 0 THEN Eighth(my) ELSE Eighth(acc)
      IN  /\ MotionCount(events') = 0
          /\ WheelTicks(events') = (IF tick # 0 THEN <<tick>> ELSE <<>>)
          /\ CountOf(events', MoveEv(0, 0, tick)) = (IF tick # 0 THEN 1 ELSE 0)
          /\ scroll_sum' = (IF tick # 0 THEN 0 ELSE acc)]_vars

C19_Witness ==
  /\ path = "scroll" /\ rep = <<8, 0, 249>> /\ scroll_sum = 0
  /\ events = <<MoveEv(0, 0, -1)>>

\* C20 (as stated): a Report translated with the scroll role held, the
\* first after the scroll-role button was released, finds scroll_sum at 0.
C20_NoLeakAcrossRelease ==
  [][(led' # led /\ path' = "scroll" /\ released) => scroll_sum = 0]_vars

(***************************************************************************)
(* mouse_write (lines 312-355) followed wait by wait.  The waits           *)
(* (loop_while) are: 1 for the device to take the clock; for each of the   *)
(* nine bits sent (eight data bits, parity) one for CLK high and one for   *)
(* CLK low; 20 for CLK low after the stop bit; 21 for both lines high.     *)
(* The device ends a wait WaitTimes milliseconds after it began; a wait    *)
(* that would pass the deadline of SendTimeout ends in the error exit.     *)
(***************************************************************************)
MaxWrites == 2

SendDeadline == 500
LastWait == 21
PS2_READ_DATA == 235
PS2_STATUS == 233

\* The bytes the program passes to mouse_write.
WriteBytes ==
  {PS2_RESET, PS2_REPORT_ENA, PS2_SET_REMOTE, PS2_READ_DATA, PS2_STATUS}
    \cup {magic[i] : i \in 1..Len(magic)}

\* How long the device lets a wait last; the last is past every deadline.
WaitTimes == {0, 200, 600}

\* A deadline that never passes.
ExpiredNever(ms) == FALSE

\* Timeout::elapsed() (line 293)
Expired(ms) == ms > SendDeadline

\* The parity bit mouse_write sends: 1, toggled by every 1 among the data bits.
WriteParity(b) == (1 + PopCount(b)) % 2

\* The level of the k-th bit sent (1..8 data, LSB first; 9 parity).
WriteBit(b, k) == IF k <= 8 THEN BitAt(b, k - 1) ELSE WriteParity(b)

\* The waits that end with a falling edge of CLK.
WaitsForLow(w) == w = 1 \/ w = 20 \/ (w >= 3 /\ w <= 19 /\ w % 2 = 1)

\* What a falling edge of CLK does: ps2_ISR if it is attached, nothing if not.
Interrupt(att, level) ==
  IF att THEN ps2_ISR([bit |-> bit, data |-> data, parity |-> parity], 0, level)
  ELSE [bit |-> bit, data |-> data, parity |-> parity, push |-> <<>>, err |-> <<>>]

restWrite == <<wireVars, mblogVars, progVars, iterVars, recovered, runVars,
               idleVars, mapVars, setupVars, devVars>>

\* lines 314-328: up to the first wait, the start condition on the bus
WriteBeginOf(Bytes) ==
  /\ wpc = 0 /\ ~rwait
  /\ nwrites < MaxWrites
  /\ \E b \in Bytes : wdata' = b
  /\ wms' = 0
  /\ attached' = AfterDetach(attached)
  /\ pin_CLK' = 1 /\ pin_DATA' = 0
  /\ wbits' = <<>> /\ wresult' = "none" /\ wpc' = 1
  /\ nwrites' = nwrites + 1
  /\ UNCHANGED <<rxVars, ps2_error, mbuf, wedges, rdVars, restWrite>>

\* One loop_while and the statements up to the next one, or to the return,
\* or the error exit (lines 352-354).
WriteWait ==
  /\ wpc # 0
  /\ \E d \in WaitTimes :
     \E late \in {Expired(wms + d)} :
     \E r \in {Interrupt(attached /\ ~late /\ WaitsForLow(wpc), pin_DATA)} :
     \E k \in {wpc \div 2 + 1} :        \* the bit sent after the wait wpc
       /\ bit' = r.bit /\ data' = r.data /\ parity' = r.parity
       /\ mbuf' = IF r.push # <<>> THEN MbufPush(mbuf, r.push[1]) ELSE mbuf
       /\ wedges' = IF attached /\ ~late /\ WaitsForLow(wpc)
                    THEN wedges + 1 ELSE wedges
       /\ IF late
          THEN /\ wms' = SendDeadline + 1
               /\ pin_CLK' = bus_stop.clk /\ pin_DATA' = bus_stop.dat
               /\ ps2_error' = 16
               /\ wpc' = 0 /\ wresult' = "error"
               /\ UNCHANGED <<attached, wbits>>
          ELSE /\ wms' = wms + d
               /\ ps2_error' = IF r.err # <<>> THEN r.err[1] ELSE ps2_error
               /\ IF wpc = LastWait
                  THEN /\ pin_CLK' = bus_idle.clk /\ pin_DATA' = bus_idle.dat
                       /\ attached' = TRUE
                       /\ wpc' = 0 /\ wresult' = "ok"
                       /\ UNCHANGED wbits
                  ELSE /\ wpc' = wpc + 1
                       /\ UNCHANGED <<attached, pin_CLK, wresult>>
                       /\ IF WaitsForLow(wpc) /\ wpc < 19
                          THEN /\ pin_DATA' = WriteBit(wdata, k)
                               /\ wbits' = Append(wbits, WriteBit(wdata, k))
                          ELSE /\ pin_DATA' = IF wpc = 19 THEN 1 ELSE pin_DATA
                               /\ UNCHANGED wbits
  /\ UNCHANGED <<wdata, nwrites, rdVars, restWrite>>

WriteBegin == WriteBeginOf(WriteBytes)

InitWrite == InitLoop

NextWrite == WriteBegin \/ WriteWait

SpecWrite == InitWrite /\ [][NextWrite]_vars

\* C11: a wait of mouse_write that would last beyond 500 ms from the start
\* of the byte ends the send: CLK is driven low and DATA released, ps2_error
\* is non-zero, and no further bit of the byte is put on DATA; a send that
\* returns normally had every wait end within the 500 ms and has sent the
\* eight data bits, LSB first, and the odd parity bit.
C11_TimeoutAborts ==
  /\ [](wresult = "error" =>
          /\ wpc = 0 /\ pin_CLK = 0 /\ pin_DATA = 1 /\ ps2_error # 0
          /\ wms > SendDeadline /\ Len(wbits) <= 9)
  /\ [](wresult = "ok" =>
          /\ wms <= SendDeadline
          /\ wbits = [i \in 1..8 |-> (wdata \div 2^(i - 1)) % 2]
                       \o <<OddParityBit(wdata)>>)
  /\ [][(wpc # 0 /\ wms' > SendDeadline) =>
          (wresult' = "error" /\ wpc' = 0 /\ wbits' = wbits)]_vars
  /\ [][(wresult = "error" /\ wpc' = 0) => wbits' = wbits]_vars

C11_Witness ==
  /\ wresult = "error" /\ wdata = 244 /\ wbits = <<0, 0, 1>>
  /\ pin_CLK = 0 /\ pin_DATA = 1 /\ ps2_error = 16

\* C17: from the detachInterrupt at the start of mouse_write to its end the
\* interrupt is detached, ps2_ISR does not run on the clock edges of the
\* device, its state and the Mailbox do not change; a mouse_write that
\* returns normally leaves the interrupt attached and both lines released.
C17_NoReceiveWhileSending ==
  /\ [](wpc # 0 => ~attached)
  /\ [](wedges = 0)
  /\ [](wresult = "ok" => (attached /\ pin_CLK = 1 /\ pin_DATA = 1))
  /\ [][wpc # 0 => UNCHANGED <<bit, data, parity, mbuf>>]_vars

C17_Witness ==
  /\ nwrites = 2 /\ ps2_error = 0 /\ wpc = 12 /\ ~attached /\ wedges = 0

(***************************************************************************)
(* mouse_read (lines 363-379) test by test of the loop of mouse_ready(),   *)
(* between the calls of mouse_write.  While delay(1) lasts the device may  *)
(* deliver a byte, if ps2_ISR is attached.                                 *)
(***************************************************************************)
MaxReads == 2

RetryLimit == 200
PS2_ACK == 250

\* The calls of delay(1) during which the device may deliver a byte: the
\* first, the 20th, the last.
ArrivalTimes == {1, 20, RetryLimit}

\* retry-- as a condition: the value before the decrement
RetryTest(r) == r # 0

\* uint8_t retry = 200 (line 365)
ReadyBegin ==
  /\ wpc = 0 /\ ~rwait
  /\ nreads < MaxReads
  /\ rwait' = TRUE /\ retry' = RetryLimit /\ rms' = 0
  /\ nreads' = nreads + 1
  /\ UNCHANGED <<rxVars, ps2_error, mbuf, busVars, rret, wpc, wdata, wms,
                 wbits, wresult, nwrites, wedges, restWrite>>

\* while (retry-- && mbuf.empty()) delay(1); once: either the delay, or the
\* end of mouse_ready() and the pull of mouse_read()
ReadyTest ==
  /\ rwait
  /\ retry' = (retry + 255) % 256
  /\ IF RetryTest(retry) /\ MbufEmpty(mbuf)
     THEN /\ rms' = rms + 1
          /\ \E arrives \in (IF attached /\ rms + 1 \in ArrivalTimes
                             THEN BOOLEAN ELSE {FALSE}) :
               mbuf' = IF arrives THEN MbufPush(mbuf, PS2_ACK) ELSE mbuf
          /\ UNCHANGED <<rwait, rret>>
     ELSE /\ rwait' = FALSE
          /\ rret' = ~MbufEmpty(mbuf)
          /\ mbuf' = IF MbufEmpty(mbuf) THEN mbuf ELSE MbufPull(mbuf)
          /\ UNCHANGED rms
  /\ UNCHANGED <<rxVars, ps2_error, busVars, nreads, wpc, wdata, wms, wbits,
                 wresult, nwrites, wedges, restWrite>>

\* The status request of the heartbeat (line 567)
WriteStatus == WriteBeginOf({PS2_STATUS})

NextWait == WriteStatus \/ WriteWait \/ ReadyBegin \/ ReadyTest

\* loop() is not preempted but by the interrupt: a wait it is in goes on.
SpecWait ==
  InitWrite /\ [][NextWait]_vars /\ WF_vars(WriteWait) /\ WF_vars(ReadyTest)

\* C23: whatever the device does, a mouse_write that has begun returns,
\* after at most 21 waits and no later than the first test of its timeout
\* past 500 ms; a mouse_ready() (and so a mouse_read()) that has begun
\* returns after at most 200 calls of delay(1).
C23_WaitsBounded ==
  /\ [](wms <= SendDeadline + 1 /\ wpc <= LastWait)
  /\ [](rms <= RetryLimit /\ (rms = RetryLimit => retry \in {0, 255}))
  /\ (wpc # 0) ~> (wpc = 0)
  /\ rwait ~> ~rwait

C23_Witness ==
  /\ wresult = "error" /\ wms = SendDeadline + 1 /\ wpc = 0
  /\ nreads = 1 /\ ~rwait /\ rms = RetryLimit /\ ~rret

(***************************************************************************)
(* loop() in stream mode with the Mailbox between it and the device, as    *)
(* long as no link error is recorded.  The device sends the Report         *)
(* MotionReport, whole or byte by byte, and answers the status request of  *)
(* the heartbeat with StatusResponse; a mouse_read that finds the Mailbox  *)
(* empty returns 0 after its 200 ms.                                       *)
(***************************************************************************)
StreamPeriods == 3
MaxReports == 2

\* Left button down, dx 5, dy 6.
MotionReport == <<9, 5, 6>>

\* The ack, and status, resolution and sample rate of a device in stream
\* mode.
StatusResponse == <<PS2_ACK, 32, 2, 100>>

\* The device sends a Report, all three bytes before loop() looks again.
DevReport ==
  /\ pending = <<>> /\ sent < MaxReports
  /\ mbuf' = PushAll(mbuf, MotionReport)
  /\ sent' = sent + 1
  /\ UNCHANGED <<rxVars, ps2_error, wireVars, mblogVars, progVars, iterVars,
                 recovered, runVars, idleVars, mapVars, pc, sidx, caller, runs,
                 faults, runTx, readLog, clean, missedAck, txAtMiss, busVars,
                 txVars>>

\* The device sends the next byte of a Report and then pauses for longer
\* than mouse_read waits.
DevByte ==
  /\ pending # <<>> \/ sent < MaxReports
  /\ \E bs \in {IF pending = <<>> THEN MotionReport ELSE pending} :
       /\ mbuf' = MbufPush(mbuf, Head(bs))
       /\ pending' = Tail(bs)
  /\ sent' = IF pending = <<>> THEN sent + 1 ELSE sent
  /\ UNCHANGED <<rxVars, ps2_error, wireVars, mblogVars, progVars, iterVars,
                 recovered, runVars, idleVars, mapVars, pc, sidx, caller, runs,
                 faults, runTx, readLog, clean, missedAck, txAtMiss, busVars,
                 wpc, wdata, wms, wbits, wresult, nwrites, wedges, rdVars,
                 hbRead>>

\* loop() (lines 548-644) in stream mode with ps2_error 0: the heartbeat, if
\* due, with its four mouse_read; then the Report, if mouse_ready() finds a
\* byte.  dt is the time since the last iteration.
StreamIter(Steps) ==
  /\ stream_mode /\ ps2_error = 0
  /\ now < StreamPeriods * TimerPeriod
  /\ \E dt \in Steps :
     \E hbA \in {MyTimerAction(heartbeat, now + dt)} :
     \* lines 564-574
     \E m0 \in {IF hbA.ret THEN PushAll(mbuf, StatusResponse) ELSE mbuf} :
     \E m1 \in {MbufPull(m0)} :
     \E m2 \in {MbufPull(m1)} :
     \E m3 \in {MbufPull(m2)} :
     \E m4 \in {IF hbA.ret THEN MbufPull(m3) ELSE mbuf} :
     \* lines 575-579
     \E m5 \in {MbufPull(m4)} :
     \E m6 \in {MbufPull(m5)} :
       /\ hbRead' = IF hbA.ret
                    THEN <<MbufPullRet(m0), MbufPullRet(m1), MbufPullRet(m2),
                           MbufPullRet(m3)>>
                    ELSE <<>>
       /\ LoopTail([left |-> lefthanded, scroll |-> internal_scrolling,
                    jiggle |-> jiggletimer.enabled,
                    r |-> IF MbufEmpty(m4) THEN <<>>
                          ELSE <<MbufPullRet(m4), MbufPullRet(m5), MbufPullRet(m6)>>,
                    su |-> FALSE, ms |-> now + dt, hbA |-> hbA,
                    err |-> ps2_error, run |-> 0])
       /\ mbuf' = IF MbufEmpty(m4) THEN m4 ELSE MbufPull(m6)
  /\ led' = 1 - led
  /\ recovered' = FALSE
  /\ UNCHANGED <<rxVars, wireVars, mblogVars, mapVars, setupVars, busVars,
                 wpc, wdata, wms, wbits, wresult, nwrites, wedges, rdVars,
                 pending>>

\* Reports that arrive byte by byte; no time passes.
PartialIter == StreamIter({0})

NextPartial == DevByte \/ PartialIter

SpecPartial == InitLoop /\ [][NextPartial]_vars

\* Whole Reports and the heartbeat.
BeatIter == StreamIter({0, TimerPeriod})

NextStream == DevReport \/ BeatIter

SpecStream == InitLoop /\ [][NextStream]_vars

(***************************************************************************)
(* The receiver across a mouse_write.  The device may be clocking out a    *)
(* frame when mouse_write detaches the interrupt and pulls CLK low (lines  *)
(* 318-322); it then gives the frame up, and clocks the host's byte in     *)
(* only after that.  The frames are well-formed.                           *)
(***************************************************************************)
AtBytes == {9, PS2_ACK}

\* The device begins a frame while the bus is its own.
AtFrame ==
  /\ wpc = 0 /\ attached
  /\ StartFrameOf(AtBytes, AtBytes, {{}})

\* A falling clock edge of the frame reaches ps2_ISR.
AtEdge ==
  /\ wpc = 0 /\ attached
  /\ ClockEdge

\* The device finds CLK held low in the middle of its frame and gives the
\* frame up.
AtAbort ==
  /\ wpc # 0 /\ fpos < Len(frame)
  /\ frame' = <<>> /\ fpos' = 0
  /\ UNCHANGED <<rxVars, ps2_error, mbuf, fbyte, fkind, fidle, fpushes, ferrs,
                 fstart, nframes, restRx>>

\* A wait of mouse_write; the device clocks only once it sends no frame.
AtWait ==
  /\ fpos = Len(frame)
  /\ WriteWait

NextAttach == AtFrame \/ AtEdge \/ WriteStatus \/ AtAbort \/ AtWait

SpecAttach == InitRx /\ [][NextAttach]_vars

\* C25 (as stated): when ps2_ISR is attached again (line 349) bit is NONE
\* and data and parity are cleared, and every well-formed frame whose 11
\* edges the receiver then gets is pushed as its byte.
C25_IdleOnAttach ==
  /\ [][(~attached /\ attached') => (bit' = NONE /\ data' = 0 /\ parity' = 0)]_vars
  /\ [](FrameDone => fpushes = <<fbyte>>)

(***************************************************************************)
(* The motion branch on its own: Reports without buttons, every delta-Y,   *)
(* delta-X zero and negative; scroll switch off; no time passes.           *)
(***************************************************************************)
MvSwitches == {[scroll |-> FALSE, left |-> FALSE, jiggle |-> TRUE]}

MvDx == {0, 128}

MvReports == {<<8, x, y>> : x \in MvDx, y \in Byte}

NextMove == Loop(MvSwitches, MvReports, {0}, {FALSE}, {FALSE}, 0)

SpecMove == InitLoop /\ [][NextMove]_vars

\* C27 (as stated): a Report translated as motion with dx or dy non-zero
\* makes one Mouse.move call, with the device's dx and with minus the
\* device's dy as int8_t, a value of -128..127, and wheel 0.
C27_VerticalNegated ==
  (path = "motion" /\ (rep[2] # 0 \/ rep[3] # 0)) =>
     /\ events # <<>>
     /\ events[1] = MoveEv(ToInt8(rep[2]), -ToInt8(rep[3]), 0)
     /\ events[1][3] \in -128..127

\* C26 (as stated): after loop() has translated a motion Report, every
\* button that map_buttons gives as released for that Report is released on
\* the host, whatever the switches were in the iterations before.
C26_NoButtonStuck ==
  (rep # <<>> /\ path \in {"motion", "scroll"}) =>
     \A i \in 1..4 :
        BitAnd(map_buttons(lefthanded, rep[1], xtrabutton), bimask[i]) = 0
          => hostDown[i] = 0

\* C24 (as stated): what loop() translates into motion, wheel or button
\* events is a Report of three bytes the device sent, from its first byte.
C24_OnlyWholeReports ==
  (rep # <<>> /\ events # <<>>) => rep = MotionReport

\* C28 (as stated): the four mouse_read of a heartbeat return the ack and
\* the three bytes of the status response, and no byte of a status response
\* is in a Report loop() goes on to handle.
C28_HeartbeatReadsItsAnswer ==
  /\ hbRead # <<>> => hbRead = StatusResponse
  /\ rep # <<>> => rep = MotionReport

=============================================================================
